---- MODULE Spec2Model ----
(***************************************************************************)
(* Model of backend/ttl_to_neo4j_uploader.py: the ontology-to-tree         *)
(* transformation (parse_ttl_to_json) and the tree-to-graph upload         *)
(* protocol (traverse_and_upload, run_conversion).                          *)
(*                                                                         *)
(* Strings are sequences of one-character strings, so that the string      *)
(* functions of the program (sanitize_label, extract_fragment, lower) are  *)
(* computed character by character as the code computes them.              *)
(***************************************************************************)
EXTENDS Integers, Sequences, FiniteSets, Bags, TLC

VARIABLES
    pc,            \* position of the caller in run_conversion / in a harness
    graph,         \* the parsed RDF graph g, as the sequence of triples in scan order
    root_label,    \* argument root_label of run_conversion (NoneStr when absent)
    preview_only,  \* argument preview_only
    labels,        \* dict labels (insertion-ordered): sequence of [k, v]
    children,      \* defaultdict children: parent term -> sequence of child terms
    parents,       \* set parents
    all_classes,   \* set all_classes, as the sequence in which the set iterates
    roots,         \* list roots (kept after the return: the ids of the trees)
    json_data,     \* list of built trees
    db,            \* committed content of the graph database
    db0,           \* content of the graph database when the program was called
    tx,            \* content seen by the open write transaction
    ops,           \* calls traverse_and_upload makes for the current tree, in order
    ip,            \* number of calls of ops already issued
    tree_idx,      \* index in json_data of the tree being uploaded
    calls,         \* every database call issued so far (history)
    total_nodes,   \* local total_nodes of run_conversion
    result,        \* what run_conversion returned or raised
    db_once,       \* database content after the first of two uploads of a tree
    label_in,      \* argument of sanitize_label in the string harness
    label_out      \* its result

vars == <<pc, graph, root_label, preview_only, labels, children, parents,
          all_classes, roots, json_data, db, db0, tx, ops, ip, tree_idx, calls,
          total_nodes, result, db_once, label_in, label_out>>

-----------------------------------------------------------------------------
(* Bounds of the model *)

\* longest string handed to sanitize_label in the string harness
MaxLen == 3
\* most triples in a generated RDF graph
MaxTriples == 2
\* deepest recursion of build_json_tree before the interpreter gives up
RecLimit == 6

-----------------------------------------------------------------------------
(* Characters and strings *)

UpperSeq == <<"A","B","C","D","E","F","G","H","I","J","K","L","M",
              "N","O","P","Q","R","S","T","U","V","W","X","Y","Z">>
LowerSeq == <<"a","b","c","d","e","f","g","h","i","j","k","l","m",
              "n","o","p","q","r","s","t","u","v","w","x","y","z">>
DigitSeq == <<"0","1","2","3","4","5","6","7","8","9">>

Range(s) == {s[i] : i \in 1..Len(s)}

UpperChars == Range(UpperSeq)
LowerChars == Range(LowerSeq)
DigitChars == Range(DigitSeq)
\* the class [a-zA-Z0-9_] of the regular expression of sanitize_label
WordChars == UpperChars \cup LowerChars \cup DigitChars \cup {"_"}

\* Python None where a string is expected
NoneStr == <<"<None>">>

\* truth value of a Python string-or-None
Truthy(s) == s # NoneStr /\ s # <<>>

\* str.lower()
LowerChar(c) ==
    IF c \in UpperChars
    THEN LowerSeq[CHOOSE i \in 1..Len(UpperSeq) : UpperSeq[i] = c]
    ELSE c

Lower(s) == [i \in 1..Len(s) |-> LowerChar(s[i])]

\* str.replace(old, new) for one-character old and new
Replace(s, old, new) == [i \in 1..Len(s) |-> IF s[i] = old THEN new ELSE s[i]]

\* re.sub(r'[^a-zA-Z0-9_]', '', s)
RECURSIVE StripNonWord(_)
StripNonWord(s) ==
    IF s = <<>> THEN <<>>
    ELSE IF Head(s) \in WordChars
         THEN <<Head(s)>> \o StripNonWord(Tail(s))
         ELSE StripNonWord(Tail(s))

\* position of the last occurrence of c in s, 0 when there is none
LastIndexOf(s, c) ==
    IF \E i \in 1..Len(s) : s[i] = c
    THEN CHOOSE i \in 1..Len(s) : s[i] = c /\ \A j \in (i+1)..Len(s) : s[j] # c
    ELSE 0

\* s.split(c)[-1]
AfterLast(s, c) == SubSeq(s, LastIndexOf(s, c) + 1, Len(s))

\* s.rstrip(c)
RECURSIVE RStrip(_, _)
RStrip(s, c) ==
    IF s # <<>> /\ s[Len(s)] = c THEN RStrip(SubSeq(s, 1, Len(s) - 1), c) ELSE s

-----------------------------------------------------------------------------
(* sanitize_label and extract_fragment *)

sanitize_label_noprefix(label) ==
    LET sanitized == StripNonWord(Replace(Replace(label, " ", "_"), "-", "_"))
    IN  IF sanitized = <<>> THEN <<"U","n","k","n","o","w","n">> ELSE sanitized

sanitize_label(label) ==
    LET stripped == StripNonWord(Replace(Replace(label, " ", "_"), "-", "_"))
        sanitized == IF stripped # <<>> /\ stripped[1] \in DigitChars
                     THEN <<"L","_">> \o stripped
                     ELSE stripped
    IN  IF sanitized = <<>> THEN <<"U","n","k","n","o","w","n">> ELSE sanitized

extract_fragment(uri) ==
    IF \E i \in 1..Len(uri) : uri[i] = "#"
    THEN AfterLast(uri, "#")
    ELSE AfterLast(RStrip(uri, "/"), "/")

-----------------------------------------------------------------------------
(* RDF terms, triples and the graphs given to the program *)

Uri(v) == [kind |-> "uri", val |-> v]
BNode(v) == [kind |-> "bnode", val |-> v]
Literal(v) == [kind |-> "lit", val |-> v]
\* Python None where a term is expected
NoneTerm == [kind |-> "none", val |-> <<>>]

Triple(s, p, o) == [s |-> s, p |-> p, o |-> o]

\* u#A, u/B, u/C/ and u/x# : a fragment, a path segment, a trailing slash and
\* an empty fragment
uA == Uri(<<"u","#","A">>)
uB == Uri(<<"u","/","B">>)
uC == Uri(<<"u","/","C","/">>)
uH == Uri(<<"u","/","x","#">>)
bN == BNode(<<"b","1">>)

sCat == <<"C","a","t">>
sMammal == <<"M","a","m","m","a","l">>
sAnimal == <<"A","n","i","m","a","l">>

\* the triples generated graphs are made of
TripleUniverse ==
    {t \in {Triple(s, "subClassOf", o) : s \in {uA, uB, uC}, o \in {uA, uB, uC}} :
        t.s # t.o \/ t.s = uB}
    \cup {Triple(uB, "subClassOf", bN), Triple(uH, "subClassOf", uA)}
    \cup {Triple(uA, "label", Literal(<<>>)),
          Triple(uB, "label", Literal(<<"a">>)),
          Triple(uC, "label", Literal(<<"9"," ","x">>))}
    \cup {Triple(uC, "type", Literal(<<"c">>))}

\* sequences of n distinct triples: an RDF graph is a set, scanned in some order
RECURSIVE GraphsOfLen(_)
GraphsOfLen(n) ==
    IF n = 0 THEN {<<>>}
    ELSE UNION {{Append(g, t) : t \in TripleUniverse \ Range(g)} : g \in GraphsOfLen(n - 1)}

GeneratedGraphs == UNION {GraphsOfLen(n) : n \in 0..MaxTriples}

\* (A subClassOf B), (B subClassOf C) with labels Cat, Mammal, Animal
ExampleGraph ==
    <<Triple(uA, "label", Literal(sCat)),
      Triple(uA, "subClassOf", uB),
      Triple(uB, "label", Literal(sMammal)),
      Triple(uB, "subClassOf", uC),
      Triple(uC, "label", Literal(sAnimal))>>

\* A has the parents B and C, and B has the parent C: A occurs at depth 1 and 2
TwoParentGraph ==
    <<Triple(uA, "subClassOf", uC),
      Triple(uA, "subClassOf", uB),
      Triple(uB, "subClassOf", uC)>>

\* the chain C -> B -> A -> H of depth 3
ChainGraph ==
    <<Triple(uH, "subClassOf", uA),
      Triple(uA, "subClassOf", uB),
      Triple(uB, "subClassOf", uC)>>

\* the cycle A -> B -> A below the root C
CycleBelowRootGraph ==
    <<Triple(uA, "subClassOf", uB),
      Triple(uB, "subClassOf", uA),
      Triple(uA, "subClassOf", uC)>>

ScenarioGraphs == {ExampleGraph, TwoParentGraph, ChainGraph, CycleBelowRootGraph}

InputGraphs == GeneratedGraphs \cup ScenarioGraphs

InputRootLabels == {NoneStr, <<>>, <<"a">>, <<"A","N","I","M","A","L">>}

-----------------------------------------------------------------------------
(* Python containers *)

\* dict: insertion-ordered sequence of [k, v]
DictHas(d, k) == \E i \in 1..Len(d) : d[i].k = k

DictGet(d, k) == d[CHOOSE i \in 1..Len(d) : d[i].k = k].v

\* d[k] = v : an existing key keeps its position
DictSet(d, k, v) ==
    IF DictHas(d, k)
    THEN [i \in 1..Len(d) |-> IF d[i].k = k THEN [k |-> k, v |-> v] ELSE d[i]]
    ELSE Append(d, [k |-> k, v |-> v])

\* children[o].append(s) on a defaultdict(list)
ListAppend(ch, o, s) ==
    IF o \in DOMAIN ch
    THEN [ch EXCEPT ![o] = Append(@, s)]
    ELSE ch @@ (o :> <<s>>)

\* children.get(node, [])
ChildrenOf(ch, node) == IF node \in DOMAIN ch THEN ch[node] ELSE <<>>

\* the empty defaultdict
NoChildren == [x \in {} |-> <<>>]

\* the orders in which a set can iterate
OrdersOf(S) ==
    {f \in [1..Cardinality(S) -> S] : \A i, j \in 1..Cardinality(S) : f[i] = f[j] => i = j}

-----------------------------------------------------------------------------
(* parse_ttl_to_json: the scan of the graph *)

ScanStart == [children |-> NoChildren, labels |-> <<>>, parents |-> {}, all_classes |-> {}]

\* one iteration of  for s, p, o in g
ScanTriple(st, t) ==
    IF t.p = "label"
    THEN [st EXCEPT !.labels = DictSet(@, t.s, t.o.val)]
    ELSE IF t.p = "subClassOf" /\ t.o.kind = "uri"
         THEN [st EXCEPT !.children = ListAppend(@, t.o, t.s),
                         !.parents = @ \cup {t.s},
                         !.all_classes = @ \cup {t.s, t.o}]
         ELSE st

RECURSIVE ScanGraph(_, _)
ScanGraph(g, n) == IF n = 0 THEN ScanStart ELSE ScanTriple(ScanGraph(g, n - 1), g[n])

\* for cls in all_classes: if cls not in labels: labels[cls] = extract_fragment(str(cls))
RECURSIVE FillLabels(_, _, _)
FillLabels(lbl, order, n) ==
    IF n = 0 THEN lbl
    ELSE LET prev == FillLabels(lbl, order, n - 1)
             cls == order[n]
         IN  IF DictHas(prev, cls) THEN prev
             ELSE DictSet(prev, cls, extract_fragment(cls.val))

\* get_uri_by_label: the first key of labels whose label matches, else None
get_uri_by_label(lbl, search_label) ==
    IF \E i \in 1..Len(lbl) : Lower(lbl[i].v) = Lower(search_label)
    THEN lbl[CHOOSE i \in 1..Len(lbl) :
                /\ Lower(lbl[i].v) = Lower(search_label)
                /\ \A j \in 1..(i - 1) : Lower(lbl[j].v) # Lower(search_label)].k
    ELSE NoneTerm

SelectRoots_leaves(order, par, ch) ==
    SelectSeq(order, LAMBDA cls : cls \notin DOMAIN ch)

\* [cls for cls in all_classes if cls not in parents]
SelectRoots(order, par, ch) ==
    SelectSeq(order, LAMBDA cls : cls \notin par)

\* what build_json_tree yields when the recursion exceeds the interpreter's limit
RecursionError == [id |-> <<"<RecursionError>">>, label |-> <<>>, children |-> <<>>]

build_json_tree_flat(node, lbl, ch, depth) ==
    [id |-> node.val,
     label |-> IF DictHas(lbl, node) THEN DictGet(lbl, node) ELSE extract_fragment(node.val),
     children |-> <<>>]

RECURSIVE build_json_tree(_, _, _, _)
build_json_tree(node, lbl, ch, depth) ==
    IF depth > RecLimit THEN RecursionError
    ELSE LET kids == [i \in 1..Len(ChildrenOf(ch, node)) |->
                         build_json_tree(ChildrenOf(ch, node)[i], lbl, ch, depth + 1)]
         IN  IF \E i \in 1..Len(kids) : kids[i] = RecursionError
             THEN RecursionError
             ELSE [id |-> node.val,
                   label |-> IF DictHas(lbl, node) THEN DictGet(lbl, node)
                             ELSE extract_fragment(node.val),
                   children |-> kids]

\* count_nodes(node, "children")
RECURSIVE count_nodes(_)
RECURSIVE SumCounts(_, _)
SumCounts(ts, n) == IF n = 0 THEN 0 ELSE SumCounts(ts, n - 1) + count_nodes(ts[n])
count_nodes(node) == 1 + SumCounts(node.children, Len(node.children))

-----------------------------------------------------------------------------
(* The graph database: nodes with one label (tag) and the properties id and *)
(* name, and a bag of SUBCLASS_OF edges <<child node, parent node>>.        *)

EmptyDb == [nodes |-> <<>>, edges |-> EmptyBag]

\* content left in the database by an earlier use
PreDb ==
    [nodes |-> <<[id |-> uA.val, tag |-> <<"O","l","d">>, name |-> <<"o">>],
                 [id |-> <<"z">>, tag |-> <<"O","l","d">>, name |-> <<"z">>]>>,
     edges |-> SetToBag({<<1, 2>>})]

NodesWithId(d, node_id) == {i \in 1..Len(d.nodes) : d.nodes[i].id = node_id}

\* MERGE (n:assigned_label {id: $id}) SET n.name = $label
upload_node(d, node_id, label, assigned_label) ==
    LET matched == {i \in NodesWithId(d, node_id) : d.nodes[i].tag = assigned_label}
    IN  IF matched = {}
        THEN [d EXCEPT !.nodes =
                 Append(@, [id |-> node_id, tag |-> assigned_label, name |-> label])]
        ELSE [d EXCEPT !.nodes =
                 [i \in 1..Len(d.nodes) |->
                     IF i \in matched THEN [d.nodes[i] EXCEPT !.name = label]
                     ELSE d.nodes[i]]]

\* MATCH (p {id: $parent_id}) MATCH (c {id: $child_id}) MERGE (c)-[:SUBCLASS_OF]->(p)
create_relationship(d, parent_id, child_id) ==
    LET rows == {<<c, p>> : c \in NodesWithId(d, child_id), p \in NodesWithId(d, parent_id)}
    IN  [d EXCEPT !.edges = @ (+) SetToBag({r \in rows : ~BagIn(r, d.edges)})]

\* MATCH (n) DETACH DELETE n
reset_database(d) == EmptyDb

NodeCount(d) == Len(d.nodes)
EdgeCount(d) == BagCardinality(d.edges)

-----------------------------------------------------------------------------
(* traverse_and_upload: the calls it makes on the transaction, in order *)

UploadCall(node_id, label, tag) ==
    [op |-> "upload_node", id |-> node_id, label |-> label, tag |-> tag, parent |-> NoneStr]

RelationshipCall(parent_id, child_id) ==
    [op |-> "create_relationship", id |-> child_id, label |-> NoneStr, tag |-> NoneStr,
     parent |-> parent_id]

ResetCall ==
    [op |-> "reset_database", id |-> NoneStr, label |-> NoneStr, tag |-> NoneStr,
     parent |-> NoneStr]

assigned_label_root_only(current_label, parent_label, level) ==
    IF level <= 0 THEN current_label ELSE parent_label

assigned_label_own(current_label, parent_label, level) == current_label

\* assigned_label = current_label if level <= 1 else parent_label
assigned_label(current_label, parent_label, level) ==
    IF level <= 1 THEN current_label ELSE parent_label

RECURSIVE recurse(_, _, _, _)
RECURSIVE RecurseChildren(_, _, _, _, _)
\* for child in children: recurse(child, parent_id=node_id, parent_label=..., level=level+1)
RecurseChildren(kids, n, node_id, tag, level) ==
    IF n = 0 THEN <<>>
    ELSE RecurseChildren(kids, n - 1, node_id, tag, level)
         \o recurse(kids[n], node_id, tag, level + 1)

recurse(node, parent_id, parent_label, level) ==
    LET node_id == node.id
        raw_label == node.label
        tag == assigned_label(sanitize_label(raw_label), parent_label, level)
    IN  IF Truthy(node_id)
        THEN <<UploadCall(node_id, raw_label, tag)>>
             \o (IF Truthy(parent_id) THEN <<RelationshipCall(parent_id, node_id)>> ELSE <<>>)
             \o RecurseChildren(node.children, Len(node.children), node_id, tag, level)
        ELSE <<>>

traverse_and_upload(root_node) == recurse(root_node, NoneStr, NoneStr, 0)

\* the effect of one call on the content the transaction sees
ApplyCall(d, c) ==
    IF c.op = "upload_node" THEN upload_node(d, c.id, c.label, c.tag)
    ELSE IF c.op = "create_relationship" THEN create_relationship(d, c.parent, c.id)
    ELSE reset_database(d)

RECURSIVE ApplyCalls(_, _, _)
ApplyCalls(d, cs, n) == IF n = 0 THEN d ELSE ApplyCall(ApplyCalls(d, cs, n - 1), cs[n])

-----------------------------------------------------------------------------
(* run_conversion *)

Init ==
    /\ pc = "start"
    /\ graph \in InputGraphs
    /\ root_label \in InputRootLabels
    /\ preview_only \in BOOLEAN
    /\ db \in {EmptyDb, PreDb}
    /\ db0 = db
    /\ labels = <<>>
    /\ children = NoChildren
    /\ parents = {}
    /\ all_classes = <<>>
    /\ roots = <<>>
    /\ json_data = <<>>
    /\ tx = EmptyDb
    /\ ops = <<>>
    /\ ip = 0
    /\ tree_idx = 0
    /\ calls = <<>>
    /\ total_nodes = 0
    /\ result = "none"
    /\ db_once = EmptyDb
    /\ label_in = NoneStr
    /\ label_out = NoneStr

inputVars == <<graph, root_label, preview_only, db0>>
scanVars == <<labels, children, parents, all_classes>>
txVars == <<tx, ops, ip, tree_idx>>
harnessVars == <<db_once, label_in, label_out>>

\* lines 33-52: the scan of the graph and the derived labels
ScanAndLabel ==
    /\ pc = "start"
    /\ LET st == ScanGraph(graph, Len(graph))
       IN  \E order \in OrdersOf(st.all_classes) :
              /\ labels' = FillLabels(st.labels, order, Len(order))
              /\ children' = st.children
              /\ parents' = st.parents
              /\ all_classes' = order
    /\ pc' = "scanned"
    /\ UNCHANGED <<inputVars, roots, json_data, db, txVars, calls, total_nodes, result,
                   harnessVars>>

\* lines 54-64, a label was given and an entity carries it
ResolveByLabel ==
    /\ pc = "scanned"
    /\ Truthy(root_label)
    /\ LET root_uri == get_uri_by_label(labels, root_label)
       IN  /\ root_uri # NoneTerm /\ root_uri.val # <<>>
           /\ roots' = <<root_uri>>
    /\ pc' = "resolved"
    /\ UNCHANGED <<inputVars, scanVars, json_data, db, txVars, calls, total_nodes, result,
                   harnessVars>>

\* lines 62-63: raise ValueError
RootNotFound ==
    /\ pc = "scanned"
    /\ Truthy(root_label)
    /\ LET root_uri == get_uri_by_label(labels, root_label)
       IN  root_uri = NoneTerm \/ root_uri.val = <<>>
    /\ pc' = "raised"
    /\ result' = "ValueError"
    /\ UNCHANGED <<inputVars, scanVars, roots, json_data, db, txVars, calls, total_nodes,
                   harnessVars>>

\* lines 65-66
ResolveImplicit ==
    /\ pc = "scanned"
    /\ ~Truthy(root_label)
    /\ roots' = SelectRoots(all_classes, parents, children)
    /\ pc' = "resolved"
    /\ UNCHANGED <<inputVars, scanVars, json_data, db, txVars, calls, total_nodes, result,
                   harnessVars>>

BuiltTrees == [i \in 1..Len(roots) |-> build_json_tree(roots[i], labels, children, 0)]

\* line 75, the recursion returns: parse_ttl_to_json returns the trees and its
\* locals children, labels, parents and all_classes are gone
BuildTrees ==
    /\ pc = "resolved"
    /\ \A i \in 1..Len(roots) : BuiltTrees[i] # RecursionError
    /\ json_data' = BuiltTrees
    /\ labels' = <<>>
    /\ children' = NoChildren
    /\ parents' = {}
    /\ all_classes' = <<>>
    /\ pc' = "parsed"
    /\ UNCHANGED <<inputVars, roots, db, txVars, calls, total_nodes, result, harnessVars>>

\* line 75, the recursion never returns: the interpreter ends it
BuildOverflow ==
    /\ pc = "resolved"
    /\ \E i \in 1..Len(roots) : BuiltTrees[i] = RecursionError
    /\ pc' = "raised"
    /\ result' = "RecursionError"
    /\ UNCHANGED <<inputVars, scanVars, roots, json_data, db, txVars, calls, total_nodes,
                   harnessVars>>

\* lines 134-135
PreviewReturn ==
    /\ pc = "parsed"
    /\ preview_only
    /\ pc' = "returned"
    /\ result' = "preview"
    /\ UNCHANGED <<inputVars, scanVars, roots, json_data, db, txVars, calls, total_nodes,
                   harnessVars>>

ResetDatabase_before_preview ==
    /\ pc = "parsed"
    /\ db' = reset_database(db)
    /\ calls' = Append(calls, ResetCall)
    /\ pc' = "reset"
    /\ UNCHANGED <<inputVars, scanVars, roots, json_data, txVars, total_nodes, result,
                   harnessVars>>

\* lines 137-138
ResetDatabase ==
    /\ pc = "parsed"
    /\ ~preview_only
    /\ db' = reset_database(db)
    /\ calls' = Append(calls, ResetCall)
    /\ pc' = "reset"
    /\ UNCHANGED <<inputVars, scanVars, roots, json_data, txVars, total_nodes, result,
                   harnessVars>>

\* line 140
CountNodes ==
    /\ pc = "reset"
    /\ total_nodes' = SumCounts(json_data, Len(json_data))
    /\ tree_idx' = 1
    /\ pc' = "loop"
    /\ UNCHANGED <<inputVars, scanVars, roots, json_data, db, tx, ops, ip, calls, result,
                   harnessVars>>

\* lines 142-144: the session's write transaction of one tree opens
BeginTx ==
    /\ pc = "loop"
    /\ tree_idx <= Len(json_data)
    /\ tx' = db
    /\ ops' = traverse_and_upload(json_data[tree_idx])
    /\ ip' = 0
    /\ pc' = "tx"
    /\ UNCHANGED <<inputVars, scanVars, roots, json_data, db, tree_idx, calls, total_nodes,
                   result, harnessVars>>

\* line 110
UploadNode ==
    /\ pc = "tx"
    /\ ip < Len(ops)
    /\ ops[ip + 1].op = "upload_node"
    /\ tx' = ApplyCall(tx, ops[ip + 1])
    /\ calls' = Append(calls, ops[ip + 1])
    /\ ip' = ip + 1
    /\ UNCHANGED <<pc, inputVars, scanVars, roots, json_data, db, ops, tree_idx,
                   total_nodes, result, harnessVars>>

\* line 112
CreateRelationship ==
    /\ pc = "tx"
    /\ ip < Len(ops)
    /\ ops[ip + 1].op = "create_relationship"
    /\ tx' = ApplyCall(tx, ops[ip + 1])
    /\ calls' = Append(calls, ops[ip + 1])
    /\ ip' = ip + 1
    /\ UNCHANGED <<pc, inputVars, scanVars, roots, json_data, db, ops, tree_idx,
                   total_nodes, result, harnessVars>>

\* line 144: the transaction function returned and execute_write commits
CommitTx ==
    /\ pc = "tx"
    /\ ip = Len(ops)
    /\ db' = tx
    /\ tree_idx' = tree_idx + 1
    /\ pc' = "loop"
    /\ UNCHANGED <<inputVars, scanVars, roots, json_data, tx, ops, ip, calls, total_nodes,
                   result, harnessVars>>

FailTx_keep ==
    /\ pc = "tx"
    /\ db' = tx
    /\ pc' = "raised"
    /\ result' = "DatabaseError"
    /\ UNCHANGED <<inputVars, scanVars, roots, json_data, tx, ops, ip, tree_idx, calls,
                   total_nodes, harnessVars>>

\* line 144: a call or the commit fails, the transaction rolls back and the
\* error leaves run_conversion
FailTx ==
    /\ pc = "tx"
    /\ tx' = db
    /\ pc' = "raised"
    /\ result' = "DatabaseError"
    /\ UNCHANGED <<inputVars, scanVars, roots, json_data, db, ops, ip, tree_idx, calls,
                   total_nodes, harnessVars>>

\* lines 146-149
ReturnSuccess ==
    /\ pc = "loop"
    /\ tree_idx > Len(json_data)
    /\ pc' = "returned"
    /\ result' = "success"
    /\ UNCHANGED <<inputVars, scanVars, roots, json_data, db, txVars, calls, total_nodes,
                   harnessVars>>

ParseNext ==
    \/ ScanAndLabel
    \/ ResolveByLabel
    \/ RootNotFound
    \/ ResolveImplicit
    \/ BuildTrees
    \/ BuildOverflow

Next ==
    \/ ParseNext
    \/ PreviewReturn
    \/ ResetDatabase
    \/ CountNodes
    \/ BeginTx
    \/ UploadNode
    \/ CreateRelationship
    \/ CommitTx
    \/ FailTx
    \/ ReturnSuccess

Spec == Init /\ [][Next]_vars

-----------------------------------------------------------------------------
(* traverse_and_upload called twice on one built tree, each call in a write *)
(* transaction that commits                                                *)

InitTwice == Init /\ ~preview_only

UploadOnce ==
    /\ pc = "parsed"
    /\ \E k \in 1..Len(json_data) :
          /\ tree_idx' = k
          /\ ops' = traverse_and_upload(json_data[k])
    /\ db' = ApplyCalls(db, ops', Len(ops'))
    /\ db_once' = db'
    /\ calls' = calls \o ops'
    /\ pc' = "uploaded_once"
    /\ UNCHANGED <<inputVars, scanVars, roots, json_data, tx, ip, total_nodes, result,
                   label_in, label_out>>

UploadAgain ==
    /\ pc = "uploaded_once"
    /\ ops' = traverse_and_upload(json_data[tree_idx])
    /\ db' = ApplyCalls(db, ops', Len(ops'))
    /\ calls' = calls \o ops'
    /\ pc' = "uploaded_twice"
    /\ UNCHANGED <<inputVars, scanVars, roots, json_data, tx, ip, tree_idx, total_nodes,
                   result, harnessVars>>

NextTwice == ParseNext \/ UploadOnce \/ UploadAgain

SpecTwice == InitTwice /\ [][NextTwice]_vars

-----------------------------------------------------------------------------
(* sanitize_label applied to every string of a bounded set *)

LabelAlphabet == {"a", "Z", "7", "_", " ", "-", "!", "#"}

RECURSIVE StringsOfLen(_)
StringsOfLen(n) ==
    IF n = 0 THEN {<<>>}
    ELSE {Append(w, c) : w \in StringsOfLen(n - 1), c \in LabelAlphabet}

InputLabels == UNION {StringsOfLen(n) : n \in 0..MaxLen}

InitSanitize ==
    /\ pc = "call"
    /\ label_in \in InputLabels
    /\ label_out = NoneStr
    /\ graph = <<>>
    /\ root_label = NoneStr
    /\ preview_only = FALSE
    /\ db = EmptyDb
    /\ db0 = EmptyDb
    /\ labels = <<>>
    /\ children = NoChildren
    /\ parents = {}
    /\ all_classes = <<>>
    /\ roots = <<>>
    /\ json_data = <<>>
    /\ tx = EmptyDb
    /\ ops = <<>>
    /\ ip = 0
    /\ tree_idx = 0
    /\ calls = <<>>
    /\ total_nodes = 0
    /\ result = "none"
    /\ db_once = EmptyDb

SanitizeLabel ==
    /\ pc = "call"
    /\ label_out' = sanitize_label(label_in)
    /\ pc' = "sanitized"
    /\ UNCHANGED <<inputVars, scanVars, roots, json_data, db, txVars, calls, total_nodes,
                   result, db_once, label_in>>

NextSanitize == SanitizeLabel

SpecSanitize == InitSanitize /\ [][NextSanitize]_vars

-----------------------------------------------------------------------------
(* Notions the properties are stated with, defined on the input graph and  *)
(* on the built trees, independently of the program's own bookkeeping      *)

Unknown == <<"U","n","k","n","o","w","n">>

Succeeded == pc = "returned" /\ result = "success"

\* the subClassOf triples whose object is a named entity
NamedSubClassTriples == {t \in Range(graph) : t.p = "subClassOf" /\ t.o.kind = "uri"}

\* the known classes: subjects and objects of those triples
KnownClasses == {t.s : t \in NamedSubClassTriples} \cup {t.o : t \in NamedSubClassTriples}

\* the label triples, each with its position in the scan
LabelPositions == {i \in 1..Len(graph) : graph[i].p = "label"}

\* the resolved labels: for a subject of label triples the label scanned last,
\* for a known class without label triple the fragment of its URI
ResolvedLabels ==
    {graph[i].o.val : i \in {k \in LabelPositions :
        \A j \in LabelPositions : graph[j].s = graph[k].s => j <= k}}
    \cup {extract_fragment(c.val) : c \in {k \in KnownClasses :
        \A j \in LabelPositions : graph[j].s # k}}

\* c is a child of p
IsChildOf(c, p) == \E t \in NamedSubClassTriples : t.s = c /\ t.o = p

\* the classes reached from the classes S by following parent-to-child edges
\* n times or fewer
RECURSIVE Descend(_, _)
Descend(S, n) ==
    IF n = 0 THEN S
    ELSE LET prev == Descend(S, n - 1)
         IN  prev \cup {c \in KnownClasses : \E p \in prev : IsChildOf(c, p)}

DescendantsOrSelf(S) == Descend(S, Cardinality(KnownClasses))

ProperDescendants(c) == DescendantsOrSelf({k \in KnownClasses : IsChildOf(k, c)})

OnCycle(c) == c \in ProperDescendants(c)

HasCycle == \E c \in KnownClasses : OnCycle(c)

CycleReachableFromRoots == \E c \in DescendantsOrSelf(Range(roots)) : OnCycle(c)

\* the node of tree t at the path p (child indexes from the root)
RECURSIVE NodeAt(_, _)
NodeAt(t, p) == IF p = <<>> THEN t ELSE NodeAt(t.children[Head(p)], Tail(p))

\* the paths of the nodes of t in depth-first pre-order
RECURSIVE PreorderPaths(_)
RECURSIVE PreorderBelow(_, _)
PreorderBelow(t, n) ==
    IF n = 0 THEN <<>>
    ELSE PreorderBelow(t, n - 1)
         \o [i \in 1..Len(PreorderPaths(t.children[n])) |->
                <<n>> \o PreorderPaths(t.children[n])[i]]
PreorderPaths(t) == <<(<<>>)>> \o PreorderBelow(t, Len(t.children))

\* the tag of the node at path p, from the tag of its parent
RECURSIVE TagAt(_, _)
TagAt(t, p) ==
    IF Len(p) <= 1 THEN sanitize_label(NodeAt(t, p).label)
    ELSE TagAt(t, SubSeq(p, 1, Len(p) - 1))

UploadCallsOf(cs) == SelectSeq(cs, LAMBDA c : c.op = "upload_node")

\* the database after a reset and the committed uploads of the first n trees
RECURSIVE DbAfterTrees(_)
DbAfterTrees(n) ==
    IF n = 0 THEN EmptyDb
    ELSE LET cs == traverse_and_upload(json_data[n])
         IN  ApplyCalls(DbAfterTrees(n - 1), cs, Len(cs))

RECURSIVE CallsOfTrees(_)
CallsOfTrees(n) ==
    IF n = 0 THEN <<>> ELSE CallsOfTrees(n - 1) \o traverse_and_upload(json_data[n])

TagsOfId(d, node_id) == {d.nodes[i].tag : i \in NodesWithId(d, node_id)}

ExampleTree ==
    [id |-> uC.val, label |-> sAnimal, children |->
        <<[id |-> uB.val, label |-> sMammal, children |->
            <<[id |-> uA.val, label |-> sCat, children |-> <<>>]>>]>>]

-----------------------------------------------------------------------------
(* Properties *)

\* C1: after a commit-mode upload (reset, then traverse_and_upload of every
\* tree) every id is carried by at most one node of the database, also when
\* an entity has several parents and occurs in the trees more than once.
\* (Stated for the runs that were given no root label.)
C1_UniqueNodePerId ==
    (Succeeded /\ root_label = NoneStr) =>
        \A i, j \in 1..Len(db.nodes) : db.nodes[i].id = db.nodes[j].id => i = j

\* C2: running traverse_and_upload on a built tree twice in a row, without a
\* reset in between, leaves as many nodes and as many SUBCLASS_OF edges as
\* running it once.
C2_UploadTwiceSameCounts ==
    pc = "uploaded_twice" =>
        /\ NodeCount(db) = NodeCount(db_once)
        /\ EdgeCount(db) = EdgeCount(db_once)

\* C3 (as stated): for (A subClassOf B), (B subClassOf C) labelled Cat, Mammal,
\* Animal and uploaded as the tree rooted at C, the nodes C, B and A are all
\* tagged Animal and no node is tagged Mammal.
C3_AllTaggedAnimal ==
    (graph = ExampleGraph /\ Succeeded) =>
        /\ TagsOfId(db, uC.val) = {sAnimal}
        /\ TagsOfId(db, uB.val) = {sAnimal}
        /\ TagsOfId(db, uA.val) = {sAnimal}
        /\ \A i \in 1..Len(db.nodes) : db.nodes[i].tag # sMammal

\* C3 (amended): for that hierarchy uploaded as the tree rooted at C, node C
\* (depth 0) is tagged Animal, node B (depth 1) is tagged with its own label
\* Mammal, and node A (depth 2) inherits B's tag Mammal; no node is tagged Cat.
C3_ExampleTags ==
    (graph = ExampleGraph /\ Succeeded) =>
        /\ json_data = <<ExampleTree>>
        /\ TagsOfId(db, uC.val) = {sAnimal}
        /\ TagsOfId(db, uB.val) = {sMammal}
        /\ TagsOfId(db, uA.val) = {sMammal}
        /\ \A i \in 1..Len(db.nodes) : db.nodes[i].tag # sCat

C3_Witness ==
    graph = ExampleGraph /\ Succeeded /\ Len(db.nodes) = 3

\* C4: run_conversion issues database calls (reset, node upsert, edge merge)
\* only when preview is not requested and the root was resolved: a preview run
\* returns the trees with no database call, and a run whose explicit root label
\* matches no resolved label (case-insensitively) raises the root-not-found
\* error with no database call; in both cases the database is unchanged.
C4_NoCallsInPreviewOrRootNotFound ==
    LET explicit == Truthy(root_label)
        no_match == \A l \in ResolvedLabels : Lower(l) # Lower(root_label)
    IN  /\ calls # <<>> =>
              /\ ~preview_only
              /\ pc \in {"reset", "loop", "tx", "returned", "raised"}
              /\ result \notin {"ValueError", "RecursionError", "preview"}
              /\ explicit => ~no_match
        /\ preview_only => calls = <<>> /\ db = db0
        /\ (preview_only /\ pc = "returned") => result = "preview"
        /\ (explicit /\ no_match /\ pc \notin {"start", "scanned"}) =>
              /\ pc = "raised"
              /\ result = "ValueError"
              /\ calls = <<>>
              /\ db = db0

C4_Witness ==
    /\ pc = "returned"
    /\ result = "preview"
    /\ json_data # <<>>
    /\ db0 = PreDb
    /\ db = PreDb

C4_WitnessRootNotFound ==
    /\ pc = "raised"
    /\ result = "ValueError"
    /\ ~preview_only
    /\ KnownClasses # {}
    /\ db = PreDb

\* C5: for every string s, sanitize_label(s) has only characters of
\* [A-Za-z0-9_], does not start with a digit, and is "Unknown" whenever
\* stripping leaves the empty string (as for "!!!").
C5_SanitizedIsIdentifier ==
    pc = "sanitized" =>
        /\ Range(label_out) \subseteq WordChars
        /\ label_out # <<>>
        /\ label_out[1] \notin DigitChars
        /\ (\A i \in 1..Len(label_in) : label_in[i] \notin WordChars \cup {" ", "-"})
              => label_out = Unknown
        /\ label_in = <<"!", "!", "!">> => label_out = Unknown

C5_Witness ==
    /\ pc = "sanitized"
    /\ label_in = <<"!", "!", "!">>
    /\ label_out = Unknown

C5_WitnessDigit ==
    /\ pc = "sanitized"
    /\ label_in = <<"7", "-", "a">>
    /\ label_out = <<"L", "_", "7", "_", "a">>

\* C6: after extraction every entity that is the subject or the object of a
\* subClassOf triple has a resolved label in the label lookup, and that label
\* is a non-empty string, whether explicit or derived from the URI.  (Stated
\* here for the triples whose object is a named entity, the reading most
\* favourable to the program.)
C6_LabelsPresentAndNonEmpty ==
    pc \in {"scanned", "resolved"} =>
        \A c \in KnownClasses : DictHas(labels, c) /\ DictGet(labels, c) # <<>>

\* C7 (as stated): in implicit mode a known class is among the roots if and
\* only if no subClassOf triple of the scanned graph has it as subject.
C7_RootsHaveNoSubClassTriple ==
    (root_label = NoneStr /\ pc \notin {"start", "scanned"}) =>
        Range(roots) =
            {c \in KnownClasses :
                ~\E t \in Range(graph) : t.p = "subClassOf" /\ t.s = c}

\* C7 (amended): in implicit mode a known class is among the roots if and only
\* if no subClassOf triple whose object is a named entity has it as subject
\* (a subClassOf triple with a blank-node or literal object does not count),
\* each root occurs once, and for (A subClassOf B), (B subClassOf C) the roots
\* are {C} and the built tree is C -> B -> A.
C7_RootsHaveNoNamedParent ==
    (~Truthy(root_label) /\ pc \notin {"start", "scanned"}) =>
        /\ Range(roots) =
              {c \in KnownClasses : ~\E t \in NamedSubClassTriples : t.s = c}
        /\ \A i, j \in 1..Len(roots) : roots[i] = roots[j] => i = j
        /\ graph = ExampleGraph => roots = <<uC>>
        /\ (graph = ExampleGraph /\ pc = "parsed") => json_data = <<ExampleTree>>

C7_Witness ==
    /\ ~Truthy(root_label)
    /\ pc = "parsed"
    /\ graph = ExampleGraph
    /\ roots = <<uC>>

C7_WitnessBlankParent ==
    /\ ~Truthy(root_label)
    /\ pc = "parsed"
    /\ uB \in Range(roots)
    /\ Triple(uB, "subClassOf", bN) \in Range(graph)

\* C8: for every tree and every node with an id, the tag passed to the upsert
\* is the node's own sanitized label at depth 0 or 1 and the tag of its parent
\* at depth 2 or more; so every node at depth 1 or more carries the sanitized
\* label of its depth-1 ancestor on that path.
C8_LabelInheritance ==
    pc = "tx" =>
        LET t == json_data[tree_idx]
            paths == PreorderPaths(t)
            ups == UploadCallsOf(ops)
        IN  /\ Len(ups) = Len(paths)
            /\ \A i \in 1..Len(paths) :
                  /\ ups[i].id = NodeAt(t, paths[i]).id
                  /\ ups[i].label = NodeAt(t, paths[i]).label
                  /\ ups[i].tag = TagAt(t, paths[i])
                  /\ Len(paths[i]) >= 1 =>
                        ups[i].tag = sanitize_label(NodeAt(t, <<paths[i][1]>>).label)

C8_Witness ==
    /\ pc = "tx"
    /\ graph = ChainGraph
    /\ ip = Len(ops)
    /\ \E i \in 1..Len(tx.nodes) :
          /\ tx.nodes[i].id = uH.val
          /\ tx.nodes[i].tag = <<"B">>

\* C9: each tree is uploaded in its own write transaction after the single
\* reset; when the transaction of the k-th tree fails partway the database
\* holds none of the k-th tree's writes and all writes of the trees before it,
\* the reset is not undone, and no later tree is uploaded.
C9_PerTreeAtomicity ==
    (pc = "raised" /\ result = "DatabaseError") =>
        /\ tree_idx \in 1..Len(json_data)
        /\ db = DbAfterTrees(tree_idx - 1)
        /\ ip \in 0..Len(traverse_and_upload(json_data[tree_idx]))
        /\ calls = <<ResetCall>>
                   \o CallsOfTrees(tree_idx - 1)
                   \o SubSeq(traverse_and_upload(json_data[tree_idx]), 1, ip)
        /\ ~ENABLED Next

C9_Witness ==
    /\ pc = "raised"
    /\ result = "DatabaseError"
    /\ tree_idx = 2
    /\ Len(json_data) >= 2
    /\ ip >= 1
    /\ db0 = PreDb
    /\ Len(db.nodes) >= 2

\* C10 (as stated): whenever the subClassOf hierarchy of the scanned graph has
\* a cycle, tree building never returns a tree sequence, with an implicit root
\* and with a root given by label; when it has none, tree building returns.
\* (The first part is stated for the runs that were given no root label.)
C10_CycleNeverReturns ==
    /\ (HasCycle /\ root_label = NoneStr) =>
          pc \notin {"parsed", "reset", "loop", "tx", "returned"}
    /\ ~HasCycle => result # "RecursionError"

\* C10 (amended): tree building recurses without end exactly when a cycle of
\* the hierarchy can be reached from one of the resolved roots by following
\* parent-to-child edges; a cycle that no resolved root leads into (with an
\* implicit root: every cycle that has no class without a parent above it) is
\* never entered, and tree building returns.  An acyclic hierarchy always
\* returns.
C10_DivergesIffCycleBelowRoot ==
    /\ pc = "parsed" => ~CycleReachableFromRoots
    /\ result = "RecursionError" => (pc = "raised" /\ CycleReachableFromRoots)
    /\ pc \in {"reset", "loop", "tx", "returned"} => result # "RecursionError"

C10_Witness ==
    /\ result = "RecursionError"
    /\ graph = CycleBelowRootGraph
    /\ ~Truthy(root_label)

C10_WitnessCycleReturns ==
    /\ HasCycle
    /\ pc = "parsed"
    /\ roots = <<>>

====
